---- MODULE Spec2Model ----
(***************************************************************************)
(* A model of scripts/notion_to_hugo.py: the Notion-to-Hugo export.  Text  *)
(* is modelled as a sequence of one-character strings, so that the string  *)
(* functions (strip, re.sub, join, slicing) are computed character by      *)
(* character as the code computes them.                                    *)
(***************************************************************************)
EXTENDS Integers, Sequences, FiniteSets, TLC

\* ------------------------------------------------------------ bounds
MaxPages == 2        \* pages in one query result
MaxBlocks == 3       \* top-level blocks of the page whose body varies
MaxSlugLen == 3      \* length of the titles given to _get_slug
MaxPropLen == 2      \* length of the Slug property texts given to _get_slug
MaxSpans == 2        \* spans of the rich text given to _rt_to_md
MaxCalls == 40       \* network calls of one run (reached only by a fetch that loops)

\* ------------------------------------------------------------ text
NL == "\n"
\* the backquote character (a TLA+ string cannot hold it)
Backtick == "BACKQUOTE"
Whitespace == {" ", NL, "\t", "\r"}

RECURSIVE Join(_)
\* "".join(parts)
Join(parts) == IF parts = <<>> THEN <<>> ELSE Head(parts) \o Join(Tail(parts))

RECURSIVE LStripSet(_, _)
LStripSet(s, cs) ==
    IF s # <<>> /\ Head(s) \in cs THEN LStripSet(Tail(s), cs) ELSE s

RECURSIVE RStripSet(_, _)
RStripSet(s, cs) ==
    IF s # <<>> /\ s[Len(s)] \in cs THEN RStripSet(SubSeq(s, 1, Len(s) - 1), cs) ELSE s

\* str.strip(chars)
StripSet(s, cs) == RStripSet(LStripSet(s, cs), cs)

\* str.strip()
Strip(s) == StripSet(s, Whitespace)

\* s[:n]
Take(s, n) == SubSeq(s, 1, IF Len(s) < n THEN Len(s) ELSE n)

RECURSIVE RunLen(_, _, _)
\* the length of the maximal run of characters of cs that starts at s[i]
RunLen(s, i, cs) ==
    IF i <= Len(s) /\ s[i] \in cs THEN 1 + RunLen(s, i + 1, cs) ELSE 0

RECURSIVE SubRuns(_, _, _, _, _)
\* re.sub(r"[cs]{min,}", repl, s), scanning from position i
SubRuns(s, i, cs, min, repl) ==
    IF i > Len(s) THEN <<>>
    ELSE LET r == RunLen(s, i, cs) IN
         IF r >= min THEN repl \o SubRuns(s, i + r, cs, min, repl)
         ELSE IF r > 0 THEN SubSeq(s, i, i + r - 1) \o SubRuns(s, i + r, cs, min, repl)
         ELSE <<s[i]>> \o SubRuns(s, i + 1, cs, min, repl)

\* ------------------------------------------------------------ slugs
Lower(c) == IF c = "A" THEN "a" ELSE IF c = "B" THEN "b" ELSE c
WordChars == {"a", "b", "A", "B", "1", "_"}               \* \w
SlugAlphabet == {"a", "B", "-", "_", " ", "'"}

\* slugify(text, allow_unicode=True) of python-slugify: quotes become
\* separators, the text is lowercased, every run of characters that are not
\* word characters, or are underscores, becomes one hyphen, repeated hyphens
\* are merged and hyphens at both ends removed.
slugify(text) ==
    LET quoted == SubRuns(text, 1, {"'"}, 1, <<"-">>)
        lowered == [k \in 1..Len(quoted) |-> Lower(quoted[k])]
        Disallowed == {c \in SlugAlphabet \cup Whitespace \cup {"!", "\"", "\\", ","} :
                          c \notin WordChars \/ c = "_"}
        cleaned == SubRuns(lowered, 1, Disallowed, 1, <<"-">>)
    IN  StripSet(SubRuns(cleaned, 1, {"-"}, 2, <<"-">>), {"-"})

Untitled == <<"u", "n", "t", "i", "t", "l", "e", "d">>

_safe_slug_nofallback(title) ==
    StripSet(SubRuns(slugify(title), 1, {"-"}, 2, <<"-">>), {"-"})

_safe_slug(title) ==
    LET s0 == slugify(title)
        s == StripSet(SubRuns(s0, 1, {"-"}, 2, <<"-">>), {"-"})
    IN  IF s # <<>> THEN s ELSE Untitled

\* ------------------------------------------------------------ properties
\* A property value is a JSON object with a "type" and that type's payload,
\* or a value that is not an object (dict = FALSE), on which .get raises.
\* The payload v is: the parts' plain_text (title, rich_text), << >> or
\* <<name>> (select), the names (multi_select), << >> or <<start>> (date).
PROP_TITLE == "Title"
PROP_SLUG == "Slug"
PROP_TAGS == "Tags"
PROP_TYPE == "Type"
PROP_DATE == "Date"

Prop(type, v) == [dict |-> TRUE, type |-> type, v |-> v]
NotADict == [dict |-> FALSE, type |-> "", v |-> <<>>]

\* a function's outcome: a returned value, or an exception
Ret(val) == [raised |-> FALSE, val |-> val]
Raise == [raised |-> TRUE, val |-> <<>>]

\* key in props (a property map is the ordered list of its items)
Has(props, key) == \E k \in 1..Len(props) : props[k].key = key

\* props[key], for a key in props
Get(props, key) ==
    props[CHOOSE k \in 1..Len(props) : props[k].key = key].val

RECURSIVE ScanTitle(_, _)
\* for k, v in props.items(): the first value typed "title"
ScanTitle(props, k) ==
    IF k > Len(props) THEN Ret(<<>>)
    ELSE IF ~props[k].val.dict THEN Raise
    ELSE IF props[k].val.type = "title" THEN Ret(Strip(Join(props[k].val.v)))
    ELSE ScanTitle(props, k + 1)

_get_title(props) ==
    IF Has(props, PROP_TITLE) /\ ~Get(props, PROP_TITLE).dict THEN Raise
    ELSE IF Has(props, PROP_TITLE) /\ Get(props, PROP_TITLE).type = "title"
         THEN Ret(Strip(Join(Get(props, PROP_TITLE).v)))
    ELSE ScanTitle(props, 1)

_get_select(props, key) ==
    IF ~Has(props, key) THEN Ret(<<>>)
    ELSE LET v == Get(props, key) IN
         IF ~v.dict THEN Raise
         ELSE IF v.type = "select" /\ v.v # <<>> THEN Ret(v.v[1])
         ELSE Ret(<<>>)

_get_multiselect(props, key) ==
    IF ~Has(props, key) THEN Ret(<<>>)
    ELSE LET v == Get(props, key) IN
         IF ~v.dict THEN Raise
         ELSE IF v.type = "multi_select" THEN Ret(SelectSeq(v.v, LAMBDA x : x # <<>>))
         ELSE Ret(<<>>)

_get_date(props, key) ==
    IF ~Has(props, key) THEN Ret(<<>>)
    ELSE LET v == Get(props, key) IN
         IF ~v.dict THEN Raise
         ELSE IF v.type = "date" /\ v.v # <<>> /\ v.v[1] # <<>> THEN Ret(Take(v.v[1], 10))
         ELSE Ret(<<>>)

_get_slug(props, title) ==
    IF ~Has(props, PROP_SLUG) THEN Ret(_safe_slug(title))
    ELSE LET v == Get(props, PROP_SLUG) IN
         IF ~v.dict THEN Raise
         ELSE IF v.type = "rich_text" /\ Strip(Join(v.v)) # <<>>
              THEN Ret(_safe_slug(Strip(Join(v.v))))
         ELSE Ret(_safe_slug(title))

\* datetime.now(timezone.utc).strftime("%Y-%m-%d"), on the day of the run
_now_yyyy_mm_dd == <<"2", "0", "2", "6", "-", "1", "1", "-", "0", "6">>

\* ------------------------------------------------------------ rich text
\* A span: plain_text, the four annotations, and href (<< >> when it is
\* None or empty: both are falsy).
Span(text, code, bold, italic, strike, href) ==
    [plain_text |-> text, code |-> code, bold |-> bold, italic |-> italic,
     strikethrough |-> strike, href |-> href]

Plain(text) == <<Span(text, FALSE, FALSE, FALSE, FALSE, <<>>)>>

RtSpanBoldFirst(t) ==
    LET t1 == IF t.bold THEN <<"*", "*">> \o t.plain_text \o <<"*", "*">> ELSE t.plain_text
        t2 == IF t.code THEN <<Backtick>> \o t1 \o <<Backtick>> ELSE t1
        t3 == IF t.italic THEN <<"*">> \o t2 \o <<"*">> ELSE t2
        t4 == IF t.strikethrough THEN <<"~", "~">> \o t3 \o <<"~", "~">> ELSE t3
    IN  IF t.href # <<>> THEN <<"[">> \o t4 \o <<"]", "(">> \o t.href \o <<")">> ELSE t4

\* the body of _rt_to_md's loop: one span's text after the five rewrites
RtSpan(t) ==
    LET t1 == IF t.code THEN <<Backtick>> \o t.plain_text \o <<Backtick>> ELSE t.plain_text
        t2 == IF t.bold THEN <<"*", "*">> \o t1 \o <<"*", "*">> ELSE t1
        t3 == IF t.italic THEN <<"*">> \o t2 \o <<"*">> ELSE t2
        t4 == IF t.strikethrough THEN <<"~", "~">> \o t3 \o <<"~", "~">> ELSE t3
    IN  IF t.href # <<>> THEN <<"[">> \o t4 \o <<"]", "(">> \o t.href \o <<")">> ELSE t4

_rt_to_md(rich_text) == Join([k \in 1..Len(rich_text) |-> RtSpan(rich_text[k])])

\* ------------------------------------------------------------ blocks
\* A block: its type, the payload of that type (rich_text, language,
\* checked, caption), has_children and the children the interface lists.
Block(type, rich_text, has_children, children) ==
    [type |-> type, rich_text |-> rich_text, language |-> <<"p", "y">>, checked |-> FALSE,
     caption |-> <<>>, has_children |-> has_children, children |-> children]

Spaces(n) == [k \in 1..n |-> " "]

_block_to_md(block, indent) ==
    LET t == block.type
        prefix == Spaces(indent)
        txt == _rt_to_md(block.rich_text)
    IN  CASE t = "paragraph" ->
               IF Strip(txt) # <<>> THEN prefix \o txt \o <<"\n">> ELSE <<"\n">>
          [] t = "heading_1" -> <<"#", " ">> \o txt \o <<"\n", "\n">>
          [] t = "heading_2" -> <<"#", "#", " ">> \o txt \o <<"\n", "\n">>
          [] t = "heading_3" -> <<"#", "#", "#", " ">> \o txt \o <<"\n", "\n">>
          [] t = "bulleted_list_item" -> prefix \o <<"-", " ">> \o txt \o <<"\n">>
          [] t = "numbered_list_item" -> prefix \o <<"1", ".", " ">> \o txt \o <<"\n">>
          [] t = "quote" -> <<">", " ">> \o txt \o <<"\n", "\n">>
          [] t = "code" ->
               <<Backtick, Backtick, Backtick>> \o block.language \o <<"\n">>
                 \o Join([k \in 1..Len(block.rich_text) |-> block.rich_text[k].plain_text])
                 \o <<"\n", Backtick, Backtick, Backtick, "\n", "\n">>
          [] t = "divider" -> <<"\n", "-", "-", "-", "\n", "\n">>
          [] t = "callout" -> <<">", " ">> \o txt \o <<"\n", "\n">>
          [] t = "to_do" ->
               prefix \o <<"-", " ", "[">> \o (IF block.checked THEN <<"x">> ELSE <<" ">>) \o <<"]", " ">> \o txt \o <<"\n">>
          [] t = "image" ->
               <<"\n", "<", "!", "-", "-", " ", "i", "m", "a", "g", "e", " ", "o", "m", "i", "t", "t", "e", "d", ":", " ">> \o _rt_to_md(block.caption) \o <<" ", "-", "-", ">", "\n", "\n">>
          [] OTHER -> <<>>

FinishNoCollapse(md_lines) == Strip(Join(md_lines)) \o <<"\n">>

\* the end of fetch_page_markdown: join, collapse the newline runs, strip
Finish(md_lines) ==
    LET md == Join(md_lines)
        collapsed == SubRuns(md, 1, {NL}, 4, <<"\n", "\n", "\n">>)
    IN  Strip(collapsed) \o <<"\n">>

\* ------------------------------------------------------------ frontmatter
DEFAULT_AUTHOR == <<>>
HUGO_CONTENT_DIR == <<"s", "i", "t", "e", "/", "c", "o", "n", "t", "e", "n", "t", "/", "p", "o", "s", "t", "s">>

Quoted(s) == <<"\"">> \o s \o <<"\"">>

RECURSIVE JoinWith(_, _)
\* sep.join(parts)
JoinWith(parts, sep) ==
    IF parts = <<>> THEN <<>>
    ELSE IF Len(parts) = 1 THEN parts[1]
    ELSE parts[1] \o sep \o JoinWith(Tail(parts), sep)

make_frontmatter(p) ==
    LET tags_yaml == IF p.tags # <<>>
                     THEN <<"[">> \o JoinWith([k \in 1..Len(p.tags) |-> Quoted(p.tags[k])], <<",", " ">>) \o <<"]">>
                     ELSE <<"[", "]">>
        type_line == IF p.type_ # <<>> THEN <<"t", "y", "p", "e", ":", " ">> \o Quoted(p.type_) \o <<"\n">> ELSE <<>>
        author_line == IF DEFAULT_AUTHOR # <<>>
                       THEN <<"a", "u", "t", "h", "o", "r", ":", " ">> \o Quoted(DEFAULT_AUTHOR) \o <<"\n">> ELSE <<>>
    IN  <<"-", "-", "-", "\n">>
          \o <<"t", "i", "t", "l", "e", ":", " ">> \o Quoted(p.title) \o <<"\n">>
          \o <<"d", "a", "t", "e", ":", " ">> \o p.date \o <<"\n">>
          \o <<"d", "r", "a", "f", "t", ":", " ", "f", "a", "l", "s", "e", "\n">>
          \o author_line
          \o type_line
          \o <<"t", "a", "g", "s", ":", " ">> \o tags_yaml \o <<"\n">>
          \o <<"s", "l", "u", "g", ":", " ">> \o Quoted(p.slug) \o <<"\n">>
          \o <<"-", "-", "-", "\n", "\n">>

OutPathNoSuffix(slug) == HUGO_CONTENT_DIR \o <<"/">> \o slug

\* HUGO_CONTENT_DIR / f"{post.slug}.md"
OutPath(slug) == HUGO_CONTENT_DIR \o <<"/">> \o slug \o <<".", "m", "d">>

\* ------------------------------------------------------------ the remote workspace
NoCursor == 0

Item(key, val) == [key |-> key, val |-> val]
Page(id, props, blocks) == [id |-> id, properties |-> props, blocks |-> blocks]

Leaf(type, text) == Block(type, Plain(text), FALSE, <<>>)

\* The pages the query may return.  Pages 1 and 2 have different titles
\* and the same slug; page 3 has a blank title; pages 4 and 8 hold a
\* property that is not an object; page 5 has an explicit slug; page 6 has
\* its title under another name; page 7 has no word character in its title.
PageCatalog ==
    { Page(1, << Item("Title", Prop("title", <<<<"A">>, <<" ", "b">>>>)),
                 Item("Date", Prop("date", <<<<"2", "0", "2", "4", "-", "0", "1", "-", "0", "5", "T", "1", "0", ":", "0", "0">>>>)),
                 Item("Tags", Prop("multi_select", <<<<"g", "o">>, <<>>, <<"x">>>>)),
                 Item("Type", Prop("select", <<<<"t">>>>)) >>,
              << Leaf("heading_1", <<"a">>), Leaf("quote", <<"b">>), Leaf("numbered_list_item", <<"c">>) >>),
      Page(2, << Item("Title", Prop("title", <<<<"a", "-", "b">>>>)),
                 Item("Date", Prop("date", <<>>)) >>,
              << Leaf("heading_3", <<"a">>), Leaf("callout", <<"b">>) >>),
      Page(3, << Item("Title", Prop("title", <<<<" ">>>>)) >>,
              << Leaf("paragraph", <<"a">>) >>),
      Page(4, << Item("Title", NotADict) >>,
              << Leaf("paragraph", <<"a">>) >>),
      Page(5, << Item("Title", Prop("title", <<<<"a", "\"", "b">>>>)),
                 Item("Slug", Prop("rich_text", <<<<" ", "B">>, <<"a", " ">>>>)) >>,
              << Block("code", <<Span(<<"a">>, FALSE, TRUE, FALSE, FALSE, <<>>)>>, FALSE, <<>>),
                 Block("to_do", <<Span(<<"a">>, TRUE, TRUE, TRUE, TRUE, <<"u">>)>>, FALSE, <<>>) >>),
      Page(6, << Item("Slug", Prop("select", <<<<"d">>>>)),
                 Item("Name", Prop("title", <<<<"c", "\\">>>>)) >>,
              << [Leaf("image", <<>>) EXCEPT !.caption = Plain(<<"a">>)] >>),
      Page(7, << Item("Title", Prop("title", <<<<"!", "!">>>>)),
                 Item("Type", Prop("select", <<>>)) >>,
              << >>),
      Page(8, << Item("Title", Prop("title", <<<<"d">>>>)),
                 Item("Tags", NotADict) >>,
              << Leaf("paragraph", <<"a">>) >>) }

\* The blocks of the page whose body varies (page 9).
BlockCatalog ==
    { Leaf("paragraph", <<"a">>),
      Block("paragraph", <<>>, FALSE, <<>>),
      Leaf("heading_2", <<"a">>),
      Leaf("divider", <<>>),
      Block("bulleted_list_item", Plain(<<"a">>), TRUE,
            << Leaf("paragraph", <<"b">>),
               Block("bulleted_list_item", Plain(<<"c">>), TRUE, << Leaf("paragraph", <<"d">>) >>),
               Leaf("heading_2", <<"e">>) >>),
      Block("toggle", Plain(<<"a">>), TRUE,
            << [Leaf("to_do", <<"b">>) EXCEPT !.checked = TRUE] >>),
      Block("paragraph", Plain(<<"a">>), TRUE, <<>>) }

\* the sequences of at most n elements of S, and those without repetition
SeqsUpTo(S, n) == UNION {[1..k -> S] : k \in 0..n}
Distinct(q) == \A a, b \in 1..Len(q) : a # b => q[a] # q[b]

Input(token, db_id, data_sources, results, dry_run, page_size) ==
    [token |-> token, db_id |-> db_id, data_sources |-> data_sources,
     results |-> results, dry_run |-> dry_run, page_size |-> page_size]

\* the batch sizes of the listing interface
PageSizes == {1, 2}

\* the environment variables (<< >> when unset or empty) and the database
ConfigInputs ==
    { Input(t, d, ds, <<>>, FALSE, 1) :
        t \in {<<>>, <<"t", "o", "k">>}, d \in {<<>>, <<"d", "b">>}, ds \in {<<>>, <<<<"d", "s", "1">>, <<"d", "s", "2">>>>} }

BatchInputs ==
    { Input(<<"t", "o", "k">>, <<"d", "b">>, <<<<"d", "s", "1">>>>, r, dr, ps) :
        r \in {q \in SeqsUpTo(PageCatalog, MaxPages) : Distinct(q)},
        dr \in BOOLEAN, ps \in PageSizes }

BodyInputs ==
    { Input(<<"t", "o", "k">>, <<"d", "b">>, <<<<"d", "s", "1">>>>,
            <<Page(9, <<Item("Title", Prop("title", <<<<"e">>>>))>>, body)>>, FALSE, ps) :
        body \in SeqsUpTo(BlockCatalog, MaxBlocks), ps \in PageSizes }

Inputs == ConfigInputs \cup BatchInputs \cup BodyInputs

\* ------------------------------------------------------------ state
VARIABLES
    token, db_id,     \* os.getenv("NOTION_TOKEN"), os.getenv("NOTION_DATABASE_ID")
    DRY_RUN,          \* the module's toggle
    notion,           \* the remote workspace: data sources, matching pages, batch size
    pc,               \* where main is
    exit_code,        \* main's return value (-1: none yet)
    exc,              \* the exception raised ("" when none)
    client,           \* Client(auth=token) was created
    dir_created,      \* HUGO_CONTENT_DIR.mkdir was called
    pages, i,         \* main's pages and the index of its loop
    post,             \* the loop's page_id, title, slug, date, tags, type_
    md_lines, cursor, resp, j,              \* fetch_page_markdown's locals
    child_id, child_cursor, child_lines,
    md_body,
    calls,            \* the network calls issued, in order
    log,              \* the lines printed, in order
    files,            \* the files under HUGO_CONTENT_DIR
    writes,           \* the write_text calls, in order
    posts,            \* the Posts constructed, in order
    fn_in, fn_out     \* the argument and the result of a function applied alone

env == <<token, db_id, DRY_RUN, notion>>
fetchVars == <<md_lines, cursor, resp, j, child_id, child_cursor, child_lines, md_body>>
effects == <<calls, log, files, writes, posts>>
fnVars == <<fn_in, fn_out>>
vars == <<token, db_id, DRY_RUN, notion, pc, exit_code, exc, client, dir_created,
          pages, i, post, md_lines, cursor, resp, j, child_id, child_cursor,
          child_lines, md_body, calls, log, files, writes, posts, fn_in, fn_out>>

NoPost == [page_id |-> 0, title |-> <<>>, slug |-> <<>>, date |-> <<>>,
           tags |-> <<>>, type_ |-> <<>>, md_body |-> <<>>]
NoResp == [results |-> <<>>, has_more |-> FALSE, next_cursor |-> NoCursor]

Start(inp, at) ==
    /\ token = inp.token /\ db_id = inp.db_id /\ DRY_RUN = inp.dry_run
    /\ notion = [data_sources |-> inp.data_sources, results |-> inp.results,
                 page_size |-> inp.page_size]
    /\ pc = at /\ exit_code = -1 /\ exc = ""
    /\ client = FALSE /\ dir_created = FALSE
    /\ pages = <<>> /\ i = 0 /\ post = NoPost
    /\ md_lines = <<>> /\ cursor = NoCursor /\ resp = NoResp /\ j = 0
    /\ child_id = <<>> /\ child_cursor = NoCursor /\ child_lines = <<>>
    /\ md_body = <<>>
    /\ calls = <<>> /\ log = <<>> /\ files = {} /\ writes = <<>> /\ posts = <<>>

Init == \E inp \in Inputs : Start(inp, "main") /\ fn_in = <<>> /\ fn_out = <<>>

\* ------------------------------------------------------------ the listing interface
\* A block's id is its path: <<page>>, <<page, k>> for the page's k-th
\* block, <<page, k, c>> for that block's c-th child.
RECURSIVE Descend(_, _)
Descend(blocks, path) ==
    IF path = <<>> THEN blocks ELSE Descend(blocks[Head(path)].children, Tail(path))

ChildrenOf(id) ==
    LET page == CHOOSE p \in {notion.results[k] : k \in 1..Len(notion.results)} : p.id = id[1]
    IN  Descend(page.blocks, Tail(id))

Min(a, b) == IF a < b THEN a ELSE b

\* blocks.children.list's answer: one batch of page_size blocks, has_more
\* and, when there is more, the cursor of the next batch
List(id, start_cursor) ==
    LET all == ChildrenOf(id)
        from == IF start_cursor = NoCursor THEN 1 ELSE start_cursor
        to == Min(from + notion.page_size - 1, Len(all))
    IN  [results |-> [k \in 1..(to - from + 1) |->
                        [id |-> Append(id, from + k - 1), block |-> all[from + k - 1]]],
         has_more |-> to < Len(all),
         next_cursor |-> IF to < Len(all) THEN to + 1 ELSE NoCursor]

Call(api, block_id, start_cursor) ==
    [api |-> api, block_id |-> block_id, start_cursor |-> start_cursor]

ListRequestNoCursor(block_id, cur) == Call("blocks.children.list", block_id, NoCursor)

\* list(block_id=..., start_cursor=cursor) if cursor else list(block_id=...)
ListRequest(block_id, cur) ==
    IF cur # NoCursor THEN Call("blocks.children.list", block_id, cur)
    ELSE Call("blocks.children.list", block_id, NoCursor)

\* ------------------------------------------------------------ main
Msg(stream, msg, arg) == [stream |-> stream, msg |-> msg, arg |-> arg]

ConfigMissingTokenOnly(t, d) == t = <<>>

\* not token or not db_id
ConfigMissing(t, d) == t = <<>> \/ d = <<>>

SkipNever(title) == FALSE

\* not title
IsSkip(title) == title = <<>>

AfterErrorContinue(n) == [pc |-> "page", i |-> n + 1]

\* nothing in main catches an exception: it leaves main
AfterError(n) == [pc |-> "raised", i |-> n]

Throw(name) ==
    /\ exc' = name
    /\ pc' = AfterError(i).pc
    /\ i' = AfterError(i).i

WriteFile(fs, path, content) ==
    {f \in fs : f.path # path} \cup {[path |-> path, content |-> content]}

Main ==
    /\ pc = "main"
    /\ IF ConfigMissing(token, db_id)
       THEN /\ log' = Append(log, Msg("stderr", "ERROR", 0))
            /\ exit_code' = 1
            /\ pc' = "returned"
            /\ UNCHANGED <<client, dir_created>>
       ELSE /\ client' = TRUE
            /\ dir_created' = TRUE
            /\ pc' = "retrieve"
            /\ UNCHANGED <<log, exit_code>>
    /\ UNCHANGED <<env, exc, pages, i, post, fetchVars, calls, files, writes, posts, fnVars>>

\* get_first_data_source_id
RetrieveDb ==
    /\ pc = "retrieve"
    /\ calls' = Append(calls, Call("databases.retrieve", <<>>, NoCursor))
    /\ \/ Throw("APIResponseError")
       \/ /\ notion.data_sources = <<>>
          /\ Throw("RuntimeError")
       \/ /\ notion.data_sources # <<>>
          /\ pc' = "query"
          /\ UNCHANGED <<exc, i>>
    /\ UNCHANGED <<env, exit_code, client, dir_created, pages, post, fetchVars,
                   log, files, writes, posts, fnVars>>

\* query_ready_gh_posts, and main's "Found" line
Query ==
    /\ pc = "query"
    /\ calls' = Append(calls, Call("data_sources.query", <<>>, NoCursor))
    /\ \/ /\ Throw("APIResponseError")
          /\ UNCHANGED <<pages, log>>
       \/ /\ pages' = notion.results
          /\ log' = Append(log, Msg("stdout", "Found", Len(notion.results)))
          /\ i' = 1
          /\ pc' = "page"
          /\ UNCHANGED exc
    /\ UNCHANGED <<env, exit_code, client, dir_created, post, fetchVars,
                   files, writes, posts, fnVars>>

\* the loop is over: "Done." and return 0
Done ==
    /\ pc = "page"
    /\ i > Len(pages)
    /\ log' = Append(log, Msg("stdout", "Done", 0))
    /\ exit_code' = 0
    /\ pc' = "returned"
    /\ UNCHANGED <<env, exc, client, dir_created, pages, i, post, fetchVars,
                   calls, files, writes, posts, fnVars>>

\* what lines 300-311 extract of a page; raised when one of them raises
Extract(page) ==
    LET props == page.properties
        title == _get_title(props)
        slug == _get_slug(props, title.val)
        date == _get_date(props, PROP_DATE)
        tags == _get_multiselect(props, PROP_TAGS)
        type_ == _get_select(props, PROP_TYPE)
    IN  [raised |-> title.raised
                      \/ (~IsSkip(title.val)
                            /\ (slug.raised \/ date.raised \/ tags.raised \/ type_.raised)),
         skip |-> ~title.raised /\ IsSkip(title.val),
         post |-> [page_id |-> page.id, title |-> title.val, slug |-> slug.val,
                   date |-> IF date.val # <<>> THEN date.val ELSE _now_yyyy_mm_dd,
                   tags |-> tags.val, type_ |-> type_.val, md_body |-> <<>>]]

\* a page whose property has a shape the extractors do not expect
ExtractFail ==
    /\ pc = "page"
    /\ i <= Len(pages)
    /\ Extract(pages[i]).raised
    /\ Throw("AttributeError")
    /\ UNCHANGED <<env, exit_code, client, dir_created, pages, post, fetchVars,
                   effects, fnVars>>

\* a page without a title: "SKIP" and continue
Skip ==
    /\ pc = "page"
    /\ i <= Len(pages)
    /\ ~Extract(pages[i]).raised
    /\ Extract(pages[i]).skip
    /\ log' = Append(log, Msg("stdout", "SKIP", pages[i].id))
    /\ i' = i + 1
    /\ UNCHANGED <<env, pc, exit_code, exc, client, dir_created, pages, post, fetchVars,
                   calls, files, writes, posts, fnVars>>

\* a page with a title: its metadata, then fetch_page_markdown begins
BeginFetch ==
    /\ pc = "page"
    /\ i <= Len(pages)
    /\ ~Extract(pages[i]).raised
    /\ ~Extract(pages[i]).skip
    /\ post' = Extract(pages[i]).post
    /\ md_lines' = <<>>
    /\ cursor' = NoCursor
    /\ pc' = "list"
    /\ UNCHANGED <<env, exit_code, exc, client, dir_created, pages, i, resp, j,
                   child_id, child_cursor, child_lines, md_body, effects, fnVars>>

\* one listing of the page's blocks (line 203)
ListTop ==
    /\ pc = "list"
    /\ Len(calls) < MaxCalls
    /\ LET req == ListRequest(<<post.page_id>>, cursor) IN
       /\ calls' = Append(calls, req)
       /\ \/ /\ Throw("APIResponseError")
             /\ UNCHANGED <<resp, j>>
          \/ /\ resp' = List(req.block_id, req.start_cursor)
             /\ j' = 1
             /\ pc' = "block"
             /\ UNCHANGED <<exc, i>>
    /\ UNCHANGED <<env, exit_code, client, dir_created, pages, post, md_lines, cursor,
                   child_id, child_cursor, child_lines, md_body,
                   log, files, writes, posts, fnVars>>

\* one block of the batch (lines 204-211)
BlockStep ==
    /\ pc = "block"
    /\ j <= Len(resp.results)
    /\ LET b == resp.results[j] IN
       /\ md_lines' = Append(md_lines, _block_to_md(b.block, 0))
       /\ IF b.block.has_children
          THEN /\ child_id' = b.id
               /\ child_cursor' = NoCursor
               /\ child_lines' = <<>>
               /\ pc' = "child_list"
               /\ UNCHANGED j
          ELSE /\ j' = j + 1
               /\ UNCHANGED <<pc, child_id, child_cursor, child_lines>>
    /\ UNCHANGED <<env, exit_code, exc, client, dir_created, pages, i, post, cursor, resp,
                   md_body, effects, fnVars>>

ChildFragmentNoIndent(cb) == _block_to_md(cb, 0)

\* _block_to_md(cb, indent=2)
ChildFragment(cb) == _block_to_md(cb, 2)

\* "".join(child_lines) + "\n"
ChildUnit(lines) == Join(lines) \o <<"\n">>

\* one listing of a block's children (lines 213-221)
ChildList ==
    /\ pc = "child_list"
    /\ Len(calls) < MaxCalls
    /\ LET req == ListRequest(child_id, child_cursor) IN
       /\ calls' = Append(calls, req)
       /\ \/ /\ Throw("APIResponseError")
             /\ UNCHANGED <<md_lines, j, child_cursor, child_lines>>
          \/ LET child_resp == List(req.block_id, req.start_cursor)
                 lines == child_lines \o
                            [k \in 1..Len(child_resp.results) |->
                               ChildFragment(child_resp.results[k].block)]
             IN  /\ child_lines' = lines
                 /\ child_cursor' = child_resp.next_cursor
                 /\ IF ~child_resp.has_more
                    THEN /\ md_lines' = IF lines # <<>>
                                        THEN Append(md_lines, ChildUnit(lines))
                                        ELSE md_lines
                         /\ j' = j + 1
                         /\ pc' = "block"
                    ELSE UNCHANGED <<md_lines, j, pc>>
                 /\ UNCHANGED <<exc, i>>
    /\ UNCHANGED <<env, exit_code, client, dir_created, pages, post, cursor, resp,
                   child_id, md_body, log, files, writes, posts, fnVars>>

\* the batch is done (lines 223-230): the next listing, or the document
BatchEnd ==
    /\ pc = "block"
    /\ j > Len(resp.results)
    /\ cursor' = resp.next_cursor
    /\ IF ~resp.has_more
       THEN /\ md_body' = Finish(md_lines)
            /\ pc' = "write"
       ELSE /\ pc' = "list"
            /\ UNCHANGED md_body
    /\ UNCHANGED <<env, exit_code, exc, client, dir_created, pages, i, post, md_lines,
                   resp, j, child_id, child_cursor, child_lines, effects, fnVars>>

\* the Post, its path and content, and the write or the dry run (lines 315-333)
WritePost ==
    /\ pc = "write"
    /\ LET p == [post EXCEPT !.md_body = md_body]
           out_path == OutPath(p.slug)
           content == make_frontmatter(p) \o p.md_body
       IN  /\ posts' = Append(posts, p)
           /\ IF DRY_RUN
              THEN /\ log' = Append(log, Msg("stdout", "DRY", p.page_id))
                   /\ UNCHANGED <<files, writes>>
              ELSE /\ files' = WriteFile(files, out_path, content)
                   /\ writes' = Append(writes, [path |-> out_path, content |-> content,
                                                page_id |-> p.page_id])
                   /\ log' = Append(log, Msg("stdout", "Wrote", p.page_id))
    /\ i' = i + 1
    /\ pc' = "page"
    /\ UNCHANGED <<env, exit_code, exc, client, dir_created, pages, post, fetchVars,
                   calls, fnVars>>

Next ==
    \/ Main \/ RetrieveDb \/ Query \/ Done \/ ExtractFail \/ Skip \/ BeginFetch
    \/ ListTop \/ BlockStep \/ ChildList \/ BatchEnd \/ WritePost

Spec == Init /\ [][Next]_vars

\* ------------------------------------------------------------ functions applied alone
Idle == Input(<<>>, <<>>, <<>>, <<>>, FALSE, 1)

FnCall(result) ==
    /\ pc = "fn"
    /\ fn_out' = result
    /\ pc' = "fn_done"
    /\ UNCHANGED <<env, exit_code, exc, client, dir_created, pages, i, post, fetchVars,
                   effects, fn_in>>

\* _get_slug on every title and every Slug property within the bounds
SlugProps ==
    { <<>>,
      <<Item("Slug", NotADict)>>,
      <<Item("Slug", Prop("select", <<<<"a">>>>))>>,
      <<Item("Slug", Prop("rich_text", <<>>))>> }
      \cup { <<Item("Slug", Prop("rich_text", <<s>>))>> : s \in SeqsUpTo(SlugAlphabet, MaxPropLen) }

InitSlug ==
    \E t \in SeqsUpTo(SlugAlphabet, MaxSlugLen), p \in SlugProps :
        /\ Start(Idle, "fn")
        /\ fn_in = [props |-> p, title |-> t]
        /\ fn_out = Raise

Call_get_slug == FnCall(_get_slug(fn_in.props, fn_in.title))

SpecSlug == InitSlug /\ [][Call_get_slug]_vars

\* _rt_to_md on every sequence of spans within the bounds
RtSpans ==
    { Span(t, c, b, it, st, h) :
        t \in {<<>>, <<"a">>}, c \in BOOLEAN, b \in BOOLEAN, it \in BOOLEAN, st \in BOOLEAN,
        h \in {<<>>, <<"u">>} }

InitRt ==
    \E rt \in SeqsUpTo(RtSpans, MaxSpans) :
        /\ Start(Idle, "fn")
        /\ fn_in = rt
        /\ fn_out = <<>>

Call_rt_to_md == FnCall(_rt_to_md(fn_in))

SpecRt == InitRt /\ [][Call_rt_to_md]_vars

\* ------------------------------------------------------------ claims
HasDoubleHyphen(s) == \E k \in 1..(Len(s) - 1) : s[k] = "-" /\ s[k + 1] = "-"

\* the text _get_slug slugifies: the Slug property's when it is a rich text
\* that is not blank, else the title
SlugSource(in) ==
    IF /\ Has(in.props, PROP_SLUG)
       /\ Get(in.props, PROP_SLUG).type = "rich_text"
       /\ Strip(Join(Get(in.props, PROP_SLUG).v)) # <<>>
    THEN Strip(Join(Get(in.props, PROP_SLUG).v))
    ELSE in.title

\* C5: for every title and every Slug property value, the slug _get_slug
\* returns is not empty, has no two consecutive hyphens and no hyphen at
\* either end, is "untitled" when slugification yields the empty string, and
\* is a fixed point of _safe_slug.
C5_SlugWellFormed ==
    (pc = "fn_done" /\ ~fn_out.raised) =>
        LET s == fn_out.val IN
        /\ s # <<>>
        /\ ~HasDoubleHyphen(s)
        /\ s[1] # "-"
        /\ s[Len(s)] # "-"
        /\ (slugify(SlugSource(fn_in)) = <<>> => s = <<"u", "n", "t", "i", "t", "l", "e", "d">>)
        /\ _safe_slug(s) = s

\* an all-hyphen title and an explicit slug without a word character
C5_Witness ==
    /\ pc = "fn_done"
    /\ fn_in.title = <<"-", "-">>
    /\ fn_in.props = <<Item("Slug", Prop("rich_text", <<<<"_", "'">>>>))>>
    /\ fn_out = Ret(<<"u", "n", "t", "i", "t", "l", "e", "d">>)

\* what the claim says one span becomes: the opening marks outermost first,
\* the text, the closing marks, the link target
ExpectedSpan(t) ==
    LET link == t.href # <<>>
        open == (IF link THEN <<"[">> ELSE <<>>)
                  \o (IF t.strikethrough THEN <<"~", "~">> ELSE <<>>)
                  \o (IF t.italic THEN <<"*">> ELSE <<>>)
                  \o (IF t.bold THEN <<"*", "*">> ELSE <<>>)
                  \o (IF t.code THEN <<Backtick>> ELSE <<>>)
        close == (IF t.code THEN <<Backtick>> ELSE <<>>)
                  \o (IF t.bold THEN <<"*", "*">> ELSE <<>>)
                  \o (IF t.italic THEN <<"*">> ELSE <<>>)
                  \o (IF t.strikethrough THEN <<"~", "~">> ELSE <<>>)
                  \o (IF link THEN <<"]", "(">> \o t.href \o <<")">> ELSE <<>>)
    IN  open \o t.plain_text \o close

RECURSIVE ExpectedRt(_)
ExpectedRt(rt) == IF rt = <<>> THEN <<>> ELSE ExpectedSpan(Head(rt)) \o ExpectedRt(Tail(rt))

\* C10: _rt_to_md returns, in span order, each span's text wrapped in
\* backticks, then **, then *, then ~~, then the link syntax; a span with every
\* annotation and a link gives [~~***`text`***~~](target); no span gives "".
C10_RichTextNesting ==
    pc = "fn_done" =>
        /\ fn_out = ExpectedRt(fn_in)
        /\ (fn_in = <<>> => fn_out = <<>>)
        /\ (fn_in = <<Span(<<"a">>, TRUE, TRUE, TRUE, TRUE, <<"u">>)>> => fn_out = <<"[", "~", "~", "*", "*", "*", Backtick, "a", Backtick, "*", "*", "*", "~", "~", "]", "(", "u", ")">>)

\* two spans, the first with code and bold, the second with every mark
C10_Witness ==
    /\ pc = "fn_done"
    /\ fn_in = <<Span(<<"a">>, TRUE, TRUE, FALSE, FALSE, <<>>), Span(<<"a">>, TRUE, TRUE, TRUE, TRUE, <<"u">>)>>
    /\ fn_out = <<"*", "*", Backtick, "a", Backtick, "*", "*", "[", "~", "~", "*", "*", "*", Backtick, "a", Backtick, "*", "*", "*", "~", "~", "]", "(", "u", ")">>

\* ------------------------------------------------------------ claims about a run
IsList(c) == c.api = "blocks.children.list"

\* the listing calls made for one id, and those made for one page's tree
CallsTo(id) == SelectSeq(calls, LAMBDA c : IsList(c) /\ c.block_id = id)
CallsUnder(page_id) == SelectSeq(calls, LAMBDA c : IsList(c) /\ c.block_id[1] = page_id)

TitleOf(page) == _get_title(page.properties)
EmptyTitle(page) == ~TitleOf(page).raised /\ TitleOf(page).val = <<>>
Titled(page) == ~TitleOf(page).raised /\ TitleOf(page).val # <<>>

Ids(q) == [k \in 1..Len(q) |-> q[k].id]
PageIds(q) == [k \in 1..Len(q) |-> q[k].page_id]
IndexOf(page_id) == CHOOSE n \in 1..Len(pages) : pages[n].id = page_id

\* the lines main prints about single pages
PageLines == SelectSeq(log, LAMBDA m : m.msg \in {"SKIP", "Wrote", "DRY"})
SkipLines(page_id) == SelectSeq(log, LAMBDA m : m = Msg("stdout", "SKIP", page_id))

\* C1: a page whose extracted title is empty is skipped: a skip line is
\* printed for it, no block-children listing is issued for it, no Post and no
\* file is made for it, the run goes on with the next page (every page before
\* the loop's index has its one line, in query order), and a run that ends
\* its loop returns 0.
C1_EmptyTitleSkipped ==
    /\ \A n \in 1..Len(pages) :
          EmptyTitle(pages[n]) =>
             /\ CallsUnder(pages[n].id) = <<>>
             /\ \A k \in 1..Len(writes) : writes[k].page_id # pages[n].id
             /\ \A k \in 1..Len(posts) : posts[k].page_id # pages[n].id
             /\ Len(SkipLines(pages[n].id)) = (IF n < i THEN 1 ELSE 0)
             /\ (n = i => pc = "page" /\ exc = "" /\ exit_code = -1)
    /\ (pages # <<>> => [k \in 1..Len(PageLines) |-> PageLines[k].arg] = Ids(SubSeq(pages, 1, i - 1)))
    /\ (pc = "returned" /\ token # <<>> /\ db_id # <<>> =>
          exit_code = 0 /\ i = Len(pages) + 1 /\ log[Len(log)] = Msg("stdout", "Done", 0))

\* a run that skipped its first page, wrote its second and returned 0
C1_Witness ==
    /\ pc = "returned"
    /\ exit_code = 0
    /\ Len(pages) = 2
    /\ EmptyTitle(pages[1])
    /\ SkipLines(pages[1].id) # <<>>
    /\ PageIds(writes) = <<pages[2].id>>

\* C2: when the token or the database id is missing, main returns 1 before
\* any network call: no client, no call of any kind, no file.
C2_MissingConfigExitsOne ==
    (token = <<>> \/ db_id = <<>>) =>
        /\ ~client
        /\ calls = <<>>
        /\ files = {} /\ writes = <<>>
        /\ (pc # "main" =>
              pc = "returned" /\ exit_code = 1 /\ log = <<Msg("stderr", "ERROR", 0)>>)

\* the token is set, the database id is not, and main has returned 1
C2_Witness ==
    /\ token # <<>>
    /\ db_id = <<>>
    /\ pc = "returned"
    /\ exit_code = 1

ExpectedPath(slug) == <<"s", "i", "t", "e", "/", "c", "o", "n", "t", "e", "n", "t", "/", "p", "o", "s", "t", "s", "/">> \o slug \o <<".", "m", "d">>
ContentOf(p) == make_frontmatter(p) \o p.md_body
Completed == pc = "returned" /\ exit_code = 0 /\ ~DRY_RUN

\* C3 as stated: after a completed run in write mode every Post has its own
\* file <content dir>/<slug>.md with its frontmatter and body, and there are
\* as many files as Posts.
C3_OneFilePerPost ==
    Completed =>
        /\ Cardinality(files) = Len(posts)
        /\ \A k \in 1..Len(posts) :
              [path |-> ExpectedPath(posts[k].slug), content |-> ContentOf(posts[k])] \in files

\* C3 as amended: after a completed run in write mode there is one Post per
\* page with a title, each written once to <content dir>/<slug>.md; the file of
\* a slug holds the frontmatter and body of the last Post with that slug, and
\* there are as many files as distinct slugs among the Posts.
C3_OneFilePerSlug ==
    Completed =>
        /\ PageIds(posts) = Ids(SelectSeq(pages, Titled))
        /\ PageIds(writes) = PageIds(posts)
        /\ {f.path : f \in files} = {ExpectedPath(posts[k].slug) : k \in 1..Len(posts)}
        /\ Cardinality(files) = Cardinality({posts[k].slug : k \in 1..Len(posts)})
        /\ \A k \in 1..Len(posts) :
              (\A m \in (k + 1)..Len(posts) : posts[m].slug # posts[k].slug) =>
                 [path |-> ExpectedPath(posts[k].slug), content |-> ContentOf(posts[k])] \in files

\* two Posts with one slug, and the one file they leave
C3_Witness ==
    /\ Completed
    /\ Len(posts) = 2
    /\ posts[1].slug = posts[2].slug
    /\ Cardinality(files) = 1

RECURSIVE FilesAfter(_)
\* the directory after a sequence of writes
FilesAfter(ws) ==
    IF ws = <<>> THEN {}
    ELSE LET w == ws[Len(ws)] IN
         {f \in FilesAfter(SubSeq(ws, 1, Len(ws) - 1)) : f.path # w.path}
            \cup {[path |-> w.path, content |-> w.content]}

NonDecreasing(q) == \A a, b \in 1..Len(q) : a < b => q[a] <= q[b]

\* C4: pages are processed in query order and an exception while page i is
\* processed ends the run: every listing so far is for a page up to i, in
\* order; the writes so far are those of the titled pages before i, in order,
\* so none is for page i or a later page; the directory is what those writes
\* left; and once an exception is raised main is over.
C4_FailureAborts ==
    /\ (exc # "" => pc = "raised")
    /\ (pc = "raised" => exc # "" /\ exit_code = -1)
    /\ (pages # <<>> =>
          /\ i \in 1..(Len(pages) + 1)
          /\ LET idx == [k \in 1..Len(SelectSeq(calls, IsList)) |->
                           IndexOf(SelectSeq(calls, IsList)[k].block_id[1])]
             IN  NonDecreasing(idx) /\ \A k \in 1..Len(idx) : idx[k] <= i
          /\ PageIds(writes) =
               (IF DRY_RUN THEN <<>> ELSE Ids(SelectSeq(SubSeq(pages, 1, i - 1), Titled))))
    /\ (pages = <<>> => writes = <<>> /\ SelectSeq(calls, IsList) = <<>>)
    /\ files = FilesAfter(writes)

\* the first page was written, then a listing for the second page failed
C4_Witness ==
    /\ pc = "raised"
    /\ exc = "APIResponseError"
    /\ Len(pages) = 2
    /\ i = 2
    /\ PageIds(writes) = <<pages[1].id>>
    /\ Cardinality(files) = 1
    /\ CallsUnder(pages[2].id) # <<>>

\* ------------------------------------------------------------ claims about a document
HasNewlineRun(s, n) == \E k \in 1..Len(s) : RunLen(s, k, {NL}) >= n

OneTrailingNewline(s) ==
    /\ s # <<>>
    /\ s[Len(s)] = NL
    /\ (Len(s) > 1 => s[Len(s) - 1] # NL)

\* C6 as stated: the document has no run of 4 or more newlines, no leading
\* whitespace, and exactly one trailing newline.
C6_DocumentNormalised ==
    pc = "write" =>
        /\ ~HasNewlineRun(md_body, 4)
        /\ md_body[1] \notin Whitespace
        /\ OneTrailingNewline(md_body)

\* C6 as amended: the document is the assembled text without its leading and
\* trailing whitespace, every run of 4 or more newlines in it replaced by 3,
\* plus one newline; it has no run of 4 or more newlines and exactly one
\* trailing newline, and it has no leading whitespace unless the assembled
\* text is all whitespace, when it is the single newline.
C6_DocumentNormalisedOrBare ==
    pc = "write" =>
        /\ md_body = SubRuns(Strip(Join(md_lines)), 1, {NL}, 4, <<"\n", "\n", "\n">>) \o <<"\n">>
        /\ ~HasNewlineRun(md_body, 4)
        /\ OneTrailingNewline(md_body)
        /\ IF Strip(Join(md_lines)) = <<>>
           THEN md_body = <<"\n">>
           ELSE md_body[1] \notin Whitespace

\* an assembled text with a run of 5 newlines inside, which the document
\* holds as 3
C6_Witness ==
    /\ pc = "write"
    /\ \E k \in 2..Len(Join(md_lines)) :
          /\ Join(md_lines)[k - 1] \notin Whitespace
          /\ RunLen(Join(md_lines), k, {NL}) = 5
          /\ k + 5 <= Len(Join(md_lines))
          /\ Join(md_lines)[k + 5] \notin Whitespace
    /\ HasNewlineRun(md_body, 3)

RECURSIVE ClosingQuote(_, _)
\* in the text after an opening double quote: the place of the quote that
\* closes the YAML string (a backslash escapes the next character), or 0
ClosingQuote(r, k) ==
    IF k > Len(r) THEN 0
    ELSE IF r[k] = "\\" THEN ClosingQuote(r, k + 2)
    ELSE IF r[k] = "\"" THEN k
    ELSE ClosingQuote(r, k + 1)

\* the second line of a frontmatter, without its newline
TitleLine(fm) ==
    LET rest == SubSeq(fm, 5, Len(fm))
        end == CHOOSE k \in 1..Len(rest) : rest[k] = NL /\ \A m \in 1..(k - 1) : rest[m] # NL
    IN  SubSeq(rest, 1, end - 1)

WellFormedTitleLine(line) ==
    /\ Len(line) > Len(<<"t", "i", "t", "l", "e", ":", " ", "\"">>)
    /\ SubSeq(line, 1, Len(<<"t", "i", "t", "l", "e", ":", " ", "\"">>)) = <<"t", "i", "t", "l", "e", ":", " ", "\"">>
    /\ LET r == SubSeq(line, Len(<<"t", "i", "t", "l", "e", ":", " ", "\"">>) + 1, Len(line))
       IN  ClosingQuote(r, 1) = Len(r)

\* C7: in the frontmatter of every Post the title line is one well-formed
\* double-quoted value: the quote that closes the string is the last
\* character of the line.
C7_TitleEscaped ==
    \A k \in 1..Len(posts) : WellFormedTitleLine(TitleLine(make_frontmatter(posts[k])))

\* ------------------------------------------------------------ claims about the listings
NumBatches(n) == IF n = 0 THEN 1 ELSE (n + notion.page_size - 1) \div notion.page_size

\* the calls for one id: the first without a cursor, each later one after an
\* answer that had more, with the cursor of that answer
Chained(id) ==
    LET cs == CallsTo(id) IN
    \A n \in 1..Len(cs) :
        IF n = 1 THEN cs[n].start_cursor = NoCursor
        ELSE LET prev == List(id, cs[n - 1].start_cursor) IN
             /\ prev.has_more
             /\ cs[n].start_cursor # NoCursor
             /\ cs[n].start_cursor = prev.next_cursor

BlocksOf(page_id) == ChildrenOf(<<page_id>>)
HasUnit(b) == b.has_children /\ b.children # <<>>

\* where the k-th block's fragment lies in md_lines
Pos(blocks, k) == k + Cardinality({m \in 1..(k - 1) : HasUnit(blocks[m])})

\* C8: a page delivered in k batches gets exactly k top-level listings,
\* the first without a cursor and each later one with the cursor of the
\* answer before it, and no more; the blocks' fragments lie in the document
\* in the order the batches delivered them.
C8_Pagination ==
    /\ \A n \in 1..Len(pages) :
          /\ Chained(<<pages[n].id>>)
          /\ Len(CallsTo(<<pages[n].id>>)) <= NumBatches(Len(pages[n].blocks))
    /\ \A k \in 1..Len(posts) :
          Len(CallsTo(<<posts[k].page_id>>)) = NumBatches(Len(BlocksOf(posts[k].page_id)))
    /\ (pc = "write" =>
          LET blocks == BlocksOf(post.page_id) IN
          /\ Len(CallsTo(<<post.page_id>>)) = NumBatches(Len(blocks))
          /\ \A k \in 1..Len(blocks) :
                /\ Pos(blocks, k) <= Len(md_lines)
                /\ md_lines[Pos(blocks, k)] = _block_to_md(blocks[k], 0))

\* three different blocks delivered one by one: three listings
C8_Witness ==
    /\ pc = "write"
    /\ notion.page_size = 1
    /\ Len(BlocksOf(post.page_id)) = 3
    /\ Len(CallsTo(<<post.page_id>>)) = 3
    /\ CallsTo(<<post.page_id>>)[3].start_cursor = 3
    /\ Cardinality({md_lines[k] : k \in 1..Len(md_lines)}) = 3

\* C9: every top-level block flagged as having children gets exactly one
\* paginated listing of its children and no other block gets any: no child's
\* id is ever listed; when the block has children, their fragments at
\* indentation 2, joined, plus one newline, are one element of the assembled
\* text, right after the block's own fragment and before the next block's.
C9_OneLevelOfChildren ==
    /\ \A k \in 1..Len(calls) :
          IsList(calls[k]) =>
             /\ Len(calls[k].block_id) <= 2
             /\ Chained(calls[k].block_id)
             /\ (Len(calls[k].block_id) = 2 =>
                   /\ BlocksOf(calls[k].block_id[1])[calls[k].block_id[2]].has_children
                   /\ Len(CallsTo(calls[k].block_id))
                        <= NumBatches(Len(ChildrenOf(calls[k].block_id))))
    /\ (pc = "write" =>
          LET blocks == BlocksOf(post.page_id) IN
          /\ Len(md_lines) = Len(blocks) + Cardinality({m \in 1..Len(blocks) : HasUnit(blocks[m])})
          /\ \A k \in 1..Len(blocks) :
                /\ Len(CallsTo(<<post.page_id, k>>)) =
                     (IF blocks[k].has_children THEN NumBatches(Len(blocks[k].children)) ELSE 0)
                /\ (HasUnit(blocks[k]) =>
                      md_lines[Pos(blocks, k) + 1] =
                         Join([c \in 1..Len(blocks[k].children) |->
                                 _block_to_md(blocks[k].children[c], 2)]) \o <<"\n">>))

\* a block of unknown type and a list item, each with children, the second
\* with a child that has children of its own, then a paragraph
C9_Witness ==
    /\ pc = "write"
    /\ notion.page_size = 1
    /\ Len(BlocksOf(post.page_id)) = 3
    /\ BlocksOf(post.page_id)[1].type = "toggle"
    /\ BlocksOf(post.page_id)[2].type = "bulleted_list_item"
    /\ BlocksOf(post.page_id)[2].children[2].has_children
    /\ ~BlocksOf(post.page_id)[3].has_children
    /\ Len(md_lines) = 5
    /\ md_lines[4] = <<" ", " ", "b", "\n", " ", " ", "-", " ", "c", "\n", "#", "#", " ", "e", "\n", "\n", "\n">>
    /\ Len(CallsTo(<<post.page_id, 2>>)) = 3

====
